---- MODULE Spec2Model ----
(* Managed-certificate controller: the supervisor (Controller.Run / quit),     *)
(* the ManagedCertificate sub-controller (McertController.Run, initializeState, *)
(* enqueue, synchronizeAllMcerts and its helpers), the rate-limited work queue  *)
(* it feeds and the worker that drains it.                                      *)
EXTENDS Integers, Sequences, FiniteSets, TLC

(***************************************************************************)
(* Bounds                                                                  *)
(***************************************************************************)
\* Number of SslCertificates the provider lets the controller create in one
\* run; past it every Create fails.
MaxCreates == 2
\* The rate limiter's per-key failure count saturates here.
MaxFailures == 1
\* Number of out-of-band changes (user creates/deletes/updates, provider losses).
MaxEnvOps == 1

(***************************************************************************)
(* Domains                                                                 *)
(***************************************************************************)
\* ManagedCertificate objects: <<namespace, name>>.  Two share the name "a".
Resources == {<<"ns1", "a">>, <<"ns2", "a">>, <<"ns1", "b">>}

\* The empty SslCertificate name (Status.CertificateName never set).
NoCert == 0

\* mcert.ObjectMeta.Name: the key of the state and of the resync's map.
ObjectMetaName(r) == r[2]

\* cache.MetaNamespaceKeyFunc: "<namespace>/<name>", the key put on the queue.
MetaNamespaceKeyFunc(r) == <<r[1], r[2]>>

\* The name a ManagedCertificate's SslCertificate had before this process
\* started (one name per object, so that distinct objects never share one).
PreCert(r) ==
    CASE r = <<"ns1", "a">> -> 1
      [] r = <<"ns2", "a">> -> 2
      [] OTHER -> 3

\* Names of certificates an earlier run may have left at the provider with
\* no object to own them.
OrphanCerts == {4, 5}

\* Names of the certificates created in this run, in the order of creation.
NewCerts == {5 + i : i \in 1..MaxCreates}

CertNames == {PreCert(r) : r \in Resources} \cup OrphanCerts \cup NewCerts

VARIABLES
    \* --- the world outside the controller
    cluster,      \* ManagedCertificate objects in the cluster (the lister's cache)
    status,       \* [Resources -> cert name]: Status.CertificateName
    provider,     \* SslCertificate names existing at the provider
    certOwner,    \* [CertNames -> object or <<>>]: the object a certificate was created for
    envOps,       \* out-of-band changes made so far
    nCreated,     \* certificates created in this run
    \* --- McertController
    state,        \* the state: ManagedCertificate name -> SslCertificate name
    wq,           \* the rate-limited work queue (see NewQueue)
    \* --- worker (runWorker)
    wpc, wkey, wname,
    \* --- resync (synchronizeAllMcerts)
    spc,          \* position in the pass
    sListing,     \* the objects lister.List returned in this pass
    sAll,         \* allMcertsInCluster: the objects kept in the map (one per name)
    sKnown,       \* allKnownSslCertsSet
    sListed,      \* sslCerts.Items
    sTodo,        \* items of sslCerts.Items not yet visited
    sIssued,      \* names c.sslClient.Delete was called with in this pass
    sEnqueued,    \* [key -> number of enqueue calls in this pass]
    sGone,        \* <<object, cert>>: state entries whose object was gone at listing time
    \* --- supervisor
    synced,       \* the informer's HasSynced
    stopClosed,   \* the external stop channel is closed
    cpc,          \* Controller.Run
    mpc,          \* McertController.Run
    ipc,          \* IngressController.Run
    iwloop,       \* wait.Until(c.runIngressWorker, ...)
    wloop,        \* wait.Until(c.runWorker, ...)
    sloop,        \* wait.Until(c.synchronizeAllMcerts, ...)
    runResult,    \* what Controller.Run returned
    \* --- history
    gcDeleted,    \* certificates the orphan GC deleted while their owner existed
    mgr           \* the call of the SslCertificateManager made last for the key in
                  \* hand: what it was given, the events it emitted, what it returned

envVars == <<cluster, status, provider, certOwner, envOps, nCreated>>
workerVars == <<wpc, wkey, wname>>
syncVars == <<spc, sListing, sAll, sKnown, sListed, sTodo, sIssued, sEnqueued, sGone>>
supVars == <<synced, stopClosed, cpc, mpc, ipc, iwloop, wloop, sloop, runResult>>
histVars == <<gcDeleted, mgr>>
vars == <<envVars, state, wq, workerVars, syncVars, supVars, histVars>>

(***************************************************************************)
(* The state (newMcertState): a mutex-guarded map                          *)
(***************************************************************************)
EmptyState == [k \in {} |-> NoCert]

StatePut(st, k, v) == [x \in DOMAIN st \cup {k} |-> IF x = k THEN v ELSE st[x]]

StateDelete(st, k) == [x \in DOMAIN st \ {k} |-> st[x]]

GetAllManagedCertificates(st) == DOMAIN st

GetAllSslCertificates(st) == {st[k] : k \in DOMAIN st}

(***************************************************************************)
(* The work queue: workqueue.NewNamedRateLimitingQueue(                     *)
(* DefaultControllerRateLimiter(), "mcertQueue")                            *)
(***************************************************************************)
Keys == {MetaNamespaceKeyFunc(r) : r \in Resources}

Min(a, b) == IF a < b THEN a ELSE b

\* queue: FIFO of keys; dirty: keys that need processing; processing: keys
\* handed out and not yet Done; waiting: keys whose delay has not elapsed;
\* failures: the rate limiter's count of When() calls per key since Forget.
NewQueue ==
    [queue |-> <<>>, dirty |-> {}, processing |-> {}, waiting |-> {},
     failures |-> [k \in Keys |-> 0], shuttingDown |-> FALSE]

\* An Add that queues the key whatever the queue already holds.
QueueAddAgain(q, k) ==
    IF q.shuttingDown THEN q
    ELSE [q EXCEPT !.dirty = @ \cup {k}, !.queue = Append(@, k)]

QueueAdd(q, k) ==
    IF q.shuttingDown \/ k \in q.dirty THEN q
    ELSE IF k \in q.processing THEN [q EXCEPT !.dirty = @ \cup {k}]
    ELSE [q EXCEPT !.dirty = @ \cup {k}, !.queue = Append(@, k)]

QueueGet(q) ==
    [q EXCEPT !.queue = Tail(@),
              !.processing = @ \cup {Head(q.queue)},
              !.dirty = @ \ {Head(q.queue)}]

QueueDone(q, k) ==
    IF k \in q.dirty
    THEN [q EXCEPT !.processing = @ \ {k}, !.queue = Append(@, k)]
    ELSE [q EXCEPT !.processing = @ \ {k}]

QueueForget(q, k) == [q EXCEPT !.failures[k] = 0]

\* AddAfter(item, rateLimiter.When(item)): When counts the call, the delay
\* is always positive, so the key waits before it is added.
QueueAddRateLimited(q, k) ==
    IF q.shuttingDown
    THEN [q EXCEPT !.failures[k] = Min(@ + 1, MaxFailures)]
    ELSE [q EXCEPT !.failures[k] = Min(@ + 1, MaxFailures),
                   !.waiting = @ \cup {k}]

QueueShutDown(q) == [q EXCEPT !.shuttingDown = TRUE]

\* c.enqueue(obj): the key function never fails on a ManagedCertificate.
enqueue(q, r) == QueueAddRateLimited(q, MetaNamespaceKeyFunc(r))

RECURSIVE enqueueAll(_, _)
enqueueAll(q, rs) ==
    IF rs = {} THEN q
    ELSE LET r == CHOOSE x \in rs : TRUE
         IN enqueueAll(enqueue(q, r), rs \ {r})

(***************************************************************************)
(* SslCertificateManager: Create, Delete, Exists, Get                      *)
(***************************************************************************)
\* A nil *api.ManagedCertificate.
NoMcert == <<>>

\* What a call of the provider's client can return as its error: "nil", or
\* an error that is a quota-exceeded, a not-found or any other one.
ProviderErrors == {"quotaExceeded", "notFound", "other"}

\* http.IsQuotaExceeded(err)
IsQuotaExceeded(err) == err = "quotaExceeded"

\* http.IgnoreNotFound(err)
IgnoreNotFound(err) == IF err = "notFound" THEN "nil" ELSE err

\* s.client.Event.<kind>(mcrt, ...)
Event(kind, mcrt) == <<kind, mcrt>>

\* A Create that tells nobody when the provider refuses.
CreateSilentOnError(sslCertificateName, mcrt, err) ==
    IF err # "nil"
    THEN [events |-> <<>>, err |-> err]
    ELSE [events |-> <<Event("Create", mcrt)>>, err |-> "nil"]

\* Create, given what s.client.Ssl.Create returned.
Create(sslCertificateName, mcrt, err) ==
    IF err # "nil"
    THEN IF IsQuotaExceeded(err)
         THEN [events |-> <<Event("TooManyCertificates", mcrt)>>, err |-> err]
         ELSE [events |-> <<Event("BackendError", mcrt)>>, err |-> err]
    ELSE [events |-> <<Event("Create", mcrt)>>, err |-> "nil"]

\* A Delete that does not test mcrt for nil before it emits.
DeleteNotifiesNil(sslCertificateName, mcrt, clientErr) ==
    IF clientErr \notin {"nil", "notFound"}
    THEN [events |-> <<Event("BackendError", mcrt)>>, err |-> clientErr]
    ELSE [events |-> <<Event("Delete", mcrt)>>, err |-> "nil"]

\* Delete, given what s.client.Ssl.Delete returned.
Delete(sslCertificateName, mcrt, clientErr) ==
    LET err == IgnoreNotFound(clientErr)
    IN  IF err # "nil"
        THEN [events |-> IF mcrt # NoMcert THEN <<Event("BackendError", mcrt)>> ELSE <<>>,
              err |-> err]
        ELSE [events |-> IF mcrt # NoMcert THEN <<Event("Delete", mcrt)>> ELSE <<>>,
              err |-> "nil"]

\* An Exists that swallows the provider's error.
ExistsSwallowsError(sslCertificateName, mcrt, exists, err) ==
    [events |-> <<>>, exists |-> exists, err |-> "nil"]

\* Exists, given what s.client.Ssl.Exists returned.
Exists(sslCertificateName, mcrt, exists, err) ==
    IF err # "nil"
    THEN [events |-> IF mcrt # NoMcert THEN <<Event("BackendError", mcrt)>> ELSE <<>>,
          exists |-> FALSE, err |-> err]
    ELSE [events |-> <<>>, exists |-> exists, err |-> "nil"]

\* Get, given what s.client.Ssl.Get returned (NoCert stands for a nil
\* *compute.SslCertificate).
Get(sslCertificateName, mcrt, sslCert, err) ==
    IF err # "nil"
    THEN [events |-> IF mcrt # NoMcert THEN <<Event("BackendError", mcrt)>> ELSE <<>>,
          sslCert |-> NoCert, err |-> err]
    ELSE [events |-> <<>>, sslCert |-> sslCert, err |-> err]

\* The record kept of a call: op is the method, name and mcrt its arguments,
\* clientVal and clientErr what the provider's client returned (Exists' bool,
\* Get's certificate; the error), events what the method emitted, val and err
\* what it returned.
Call(op, name, mcrt, clientVal, clientErr, events, val, err) ==
    [op |-> op, name |-> name, mcrt |-> mcrt,
     clientVal |-> clientVal, clientErr |-> clientErr,
     events |-> events, val |-> val, err |-> err]

NoCall == Call("none", NoCert, NoMcert, NoCert, "nil", <<>>, NoCert, "nil")

(***************************************************************************)
(* The resync pass: synchronizeAllMcerts and its helpers                   *)
(***************************************************************************)
\* The maps getAllMcertsInCluster can return for a listing: the map is keyed
\* by ObjectMeta.Name, so of the objects sharing a name the one listed last
\* stays, and the lister's order is not fixed.
getAllMcertsInCluster(listing) ==
    {m \in SUBSET listing :
        \A r \in listing :
            Cardinality({x \in m : ObjectMetaName(x) = ObjectMetaName(r)}) = 1}

MapKeys(m) == {ObjectMetaName(r) : r \in m}

\* A clean-up that tests the wrong way round: it keeps the entries whose
\* object is gone and drops the others.
deleteLiveMcertsFromState(st, allMcertsInCluster) ==
    [k \in {x \in GetAllManagedCertificates(st) : x \notin MapKeys(allMcertsInCluster)}
        |-> st[k]]

deleteObsoleteMcertsFromState(st, allMcertsInCluster) ==
    [k \in {x \in GetAllManagedCertificates(st) : x \in MapKeys(allMcertsInCluster)}
        |-> st[k]]

\* The items of the provider's list deleteObsoleteSslCertificates deletes.
ObsoleteSslCertificates(items, allKnownSslCertsSet) ==
    {c \in items : c \notin allKnownSslCertsSet}

(***************************************************************************)
(* Initial state: the controller is constructed (NewController), the       *)
(* cluster and the provider hold what an earlier run left behind.          *)
(***************************************************************************)
\* The states initializeState can leave: one Put per listed object, keyed by
\* ObjectMeta.Name, in the lister's order (the last Put of a name wins).
initializeState(listing, st) ==
    {m \in [MapKeys(listing) -> {st[r] : r \in listing}] :
        \A k \in DOMAIN m : \E r \in listing : ObjectMetaName(r) = k /\ m[k] = st[r]}

NoSyncLocals ==
    /\ sListing = {} /\ sAll = {} /\ sKnown = {} /\ sListed = {}
    /\ sTodo = {} /\ sIssued = {} /\ sGone = {}
    /\ sEnqueued = [k \in Keys |-> 0]

\* The initial states with the objects of U in play.
InitIn(U) ==
    /\ cluster \in SUBSET U
    /\ \E prov \in SUBSET cluster, orph \in SUBSET OrphanCerts :
          \* an earlier run keyed its state by name: of the objects sharing
          \* a name at most one had a certificate provisioned
          /\ \A r1, r2 \in prov : ObjectMetaName(r1) = ObjectMetaName(r2) => r1 = r2
          /\ (5 \in orph => 4 \in orph)
          /\ status = [r \in Resources |-> IF r \in prov THEN PreCert(r) ELSE NoCert]
          /\ provider = {PreCert(r) : r \in prov} \cup orph
          /\ certOwner = [c \in CertNames |->
                IF \E r \in prov : PreCert(r) = c
                THEN CHOOSE r \in prov : PreCert(r) = c
                ELSE <<>>]
    /\ envOps = 0
    /\ nCreated = 0
    /\ state = EmptyState
    /\ wq = NewQueue
    /\ wpc = "idle" /\ wkey = <<>> /\ wname = NoCert
    /\ spc = "idle" /\ NoSyncLocals
    /\ synced = FALSE /\ stopClosed = FALSE
    /\ cpc = "waitsync" /\ mpc = "notstarted" /\ ipc = "notstarted"
    /\ iwloop = "notstarted" /\ wloop = "notstarted" /\ sloop = "notstarted"
    /\ runResult = "none"
    /\ gcDeleted = FALSE
    /\ mgr = NoCall

Init == InitIn(Resources)

(***************************************************************************)
(* The world outside: the informer, the user, the provider                 *)
(***************************************************************************)
\* The informer finishes its initial list: HasSynced turns true and the
\* AddFunc handler has run for every object listed.
CacheSynced ==
    /\ ~synced
    /\ synced' = TRUE
    /\ wq' = enqueueAll(wq, cluster)
    /\ UNCHANGED <<envVars, state, workerVars, syncVars, stopClosed, cpc, mpc,
                   ipc, iwloop, wloop, sloop, runResult, histVars>>

\* A user creates an object; the AddFunc handler runs unless the
\* notification is missed.
UserCreate(r, delivered) ==
    /\ envOps < MaxEnvOps
    /\ r \notin cluster
    /\ cluster' = cluster \cup {r}
    \* certificates of an earlier object of that name are not the new object's
    /\ certOwner' = [c \in CertNames |-> IF certOwner[c] = r THEN <<>> ELSE certOwner[c]]
    /\ envOps' = envOps + 1
    /\ wq' = IF delivered THEN enqueue(wq, r) ELSE wq
    /\ UNCHANGED <<status, provider, nCreated, state, workerVars, syncVars,
                   supVars, histVars>>

\* A user deletes an object; the DeleteFunc handler runs unless the
\* notification is missed.
UserDelete(r, delivered) ==
    /\ envOps < MaxEnvOps
    /\ r \in cluster
    /\ cluster' = cluster \ {r}
    /\ status' = [status EXCEPT ![r] = NoCert]
    /\ envOps' = envOps + 1
    /\ wq' = IF delivered THEN enqueue(wq, r) ELSE wq
    /\ UNCHANGED <<provider, certOwner, nCreated, state, workerVars, syncVars,
                   supVars, histVars>>

\* An object is updated (or the informer resyncs it): UpdateFunc.
UserUpdate(r) ==
    /\ envOps < MaxEnvOps
    /\ r \in cluster
    /\ envOps' = envOps + 1
    /\ wq' = enqueue(wq, r)
    /\ UNCHANGED <<cluster, status, provider, certOwner, nCreated, state,
                   workerVars, syncVars, supVars, histVars>>

\* The provider loses a certificate (deleted out of band).
ProviderLoses(c) ==
    /\ envOps < MaxEnvOps
    /\ c \in provider
    /\ provider' = provider \ {c}
    /\ certOwner' = [certOwner EXCEPT ![c] = <<>>]
    /\ envOps' = envOps + 1
    /\ UNCHANGED <<cluster, status, nCreated, state, wq, workerVars, syncVars,
                   supVars, histVars>>

\* The delay of a waiting key elapses: the delaying queue adds it.
DelayElapsed(k) ==
    /\ k \in wq.waiting
    /\ ~wq.shuttingDown
    /\ wq' = QueueAdd([wq EXCEPT !.waiting = @ \ {k}], k)
    /\ UNCHANGED <<envVars, state, workerVars, syncVars, supVars, histVars>>

(***************************************************************************)
(* synchronizeAllMcerts, run by wait.Until(..., time.Minute, stopChannel)  *)
(***************************************************************************)
\* Entries of the state that belong to an object no longer in the cluster.
StateEntriesOfGone(st, cl) ==
    {<<r, st[ObjectMetaName(r)]>> : r \in
        {x \in Resources \ cl :
            /\ ObjectMetaName(x) \in DOMAIN st
            /\ st[ObjectMetaName(x)] # NoCert
            /\ certOwner[st[ObjectMetaName(x)]] = x}}

\* getAllMcertsInCluster: the lister fails (the pass returns) or the map is built.
SyncList ==
    /\ sloop = "running" /\ spc = "list"
    /\ \/ /\ spc' = "failed"
          /\ sloop' = "sleep"
          /\ UNCHANGED <<sListing, sAll, sGone>>
       \/ /\ sListing' = cluster
          /\ sAll' \in getAllMcertsInCluster(cluster)
          /\ sGone' = StateEntriesOfGone(state, cluster)
          /\ spc' = "clean"
          /\ sloop' = sloop
    /\ UNCHANGED <<envVars, state, wq, workerVars, sKnown, sListed, sTodo, sIssued,
                   sEnqueued, synced, stopClosed, cpc, mpc, ipc, iwloop, wloop,
                   runResult, histVars>>

\* deleteObsoleteMcertsFromState(allMcertsInCluster)
SyncClean ==
    /\ sloop = "running" /\ spc = "clean"
    /\ state' = deleteObsoleteMcertsFromState(state, sAll)
    /\ spc' = "snap"
    /\ UNCHANGED <<envVars, wq, workerVars, sListing, sAll, sKnown, sListed, sTodo,
                   sIssued, sEnqueued, sGone, supVars, histVars>>

\* deleteObsoleteSslCertificates: allKnownSslCertsSet is built from the state.
SyncSnapshot ==
    /\ sloop = "running" /\ spc = "snap"
    /\ sKnown' = GetAllSslCertificates(state)
    /\ spc' = "plist"
    /\ UNCHANGED <<envVars, state, wq, workerVars, sListing, sAll, sListed, sTodo,
                   sIssued, sEnqueued, sGone, supVars, histVars>>

\* A pass that goes on to its last loop after the provider's List failed.
EnqueueAfterFailedList(q, allMcertsInCluster) == enqueueAll(q, allMcertsInCluster)

\* The queue after deleteObsoleteSslCertificates returned an error:
\* synchronizeAllMcerts hands it to HandleError and returns, the loop that
\* enqueues is not reached.
AfterFailedList(q, allMcertsInCluster) == q

\* deleteObsoleteSslCertificates: c.sslClient.List() fails (the pass
\* returns) or returns the provider's certificates.
SyncListSsl ==
    /\ sloop = "running" /\ spc = "plist"
    /\ \/ /\ spc' = "failed"
          /\ sloop' = "sleep"
          /\ wq' = AfterFailedList(wq, sAll)
          /\ UNCHANGED <<sListed, sTodo>>
       \/ /\ sListed' = provider
          /\ sTodo' = ObsoleteSslCertificates(provider, sKnown)
          /\ spc' = "del"
          /\ sloop' = sloop
          /\ wq' = wq
    /\ UNCHANGED <<envVars, state, workerVars, sListing, sAll, sKnown, sIssued,
                   sEnqueued, sGone, synced, stopClosed, cpc, mpc, ipc, iwloop,
                   wloop, runResult, histVars>>

\* A loop that stops at the first Delete that fails.
AbortAfterFailedDelete(todo) == {}

\* What the loop over sslCerts.Items does after a Delete that failed: the
\* error is discarded and the loop goes on with the remaining items.
AfterFailedDelete(todo) == todo

\* One iteration of the loop that deletes: c.sslClient.Delete(sslCert.Name)
\* succeeds (also when the certificate is already gone) or fails.
SyncDeleteOne(c, ok) ==
    /\ sloop = "running" /\ spc = "del"
    /\ c \in sTodo
    /\ sIssued' = sIssued \cup {c}
    /\ sTodo' = IF ok THEN sTodo \ {c} ELSE AfterFailedDelete(sTodo \ {c})
    /\ IF ok
       THEN /\ provider' = provider \ {c}
            /\ certOwner' = [certOwner EXCEPT ![c] = <<>>]
            /\ gcDeleted' = (gcDeleted \/ (c \in provider /\ c \in NewCerts
                                            /\ certOwner[c] \in cluster))
       ELSE UNCHANGED <<provider, certOwner, gcDeleted>>
    /\ UNCHANGED <<cluster, status, envOps, nCreated, state, wq, workerVars, spc, sListing,
                   sAll, sKnown, sListed, sEnqueued, sGone, supVars, mgr>>

\* The objects the last loop of synchronizeAllMcerts enqueues.
EnqueuedBySync(allMcertsInCluster) == allMcertsInCluster

\* The last loop: c.enqueue(mcert) for every value of the map.
SyncEnqueue ==
    /\ sloop = "running" /\ spc = "del" /\ sTodo = {}
    /\ wq' = enqueueAll(wq, EnqueuedBySync(sAll))
    /\ sEnqueued' = [k \in Keys |->
          IF \E r \in EnqueuedBySync(sAll) : MetaNamespaceKeyFunc(r) = k
          THEN sEnqueued[k] + 1 ELSE sEnqueued[k]]
    /\ spc' = "done"
    /\ sloop' = "sleep"
    /\ UNCHANGED <<envVars, state, workerVars, sListing, sAll, sKnown, sListed,
                   sTodo, sIssued, sGone, synced, stopClosed, cpc, mpc, ipc,
                   iwloop, wloop, runResult, histVars>>

\* wait.Until: the period elapses.
SyncTimer ==
    /\ sloop = "sleep"
    /\ sloop' = "top"
    /\ spc' = "idle"
    /\ sListing' = {} /\ sAll' = {} /\ sKnown' = {} /\ sListed' = {}
    /\ sTodo' = {} /\ sIssued' = {} /\ sGone' = {}
    /\ sEnqueued' = [k \in Keys |-> 0]
    /\ UNCHANGED <<envVars, state, wq, workerVars, synced, stopClosed, cpc, mpc,
                   ipc, iwloop, wloop, runResult, histVars>>

\* wait.Until: the stop channel has nothing to receive, f is called.
SyncLoopEnter ==
    /\ sloop = "top"
    /\ cpc # "quit_mcert"
    /\ sloop' = "running"
    /\ spc' = "list"
    /\ UNCHANGED <<envVars, state, wq, workerVars, sListing, sAll, sKnown, sListed,
                   sTodo, sIssued, sEnqueued, sGone, synced, stopClosed, cpc, mpc,
                   ipc, iwloop, wloop, runResult, histVars>>

(***************************************************************************)
(* The worker: runWorker under wait.Until(..., time.Second, stopChannel),  *)
(* and the reconciliation of one key                                       *)
(***************************************************************************)
\* The name of the next new certificate (names are never reused).
FreshName == 5 + nCreated + 1

\* The end of processing a key: Forget and Done on success, AddRateLimited
\* and Done on failure.
Finish(q, k, ok) ==
    IF ok THEN QueueDone(QueueForget(q, k), k)
    ELSE QueueDone(QueueAddRateLimited(q, k), k)

\* The worker takes the next key and looks its object and its state entry up.
WorkerGet ==
    /\ wloop = "running" /\ wpc = "idle"
    /\ wq.queue # <<>>
    /\ LET k == Head(wq.queue)
           n == ObjectMetaName(k)
       IN IF k \notin cluster /\ n \notin DOMAIN state
             THEN \* object deleted, no entry: nothing to do
                  /\ wq' = Finish(QueueGet(wq), k, TRUE)
                  /\ wpc' = "idle"
                  /\ wkey' = <<>>
                  /\ wname' = NoCert
             ELSE /\ wq' = QueueGet(wq)
                  /\ wkey' = k
                  /\ wpc' = IF k \notin cluster THEN "delete"
                            ELSE IF n \in DOMAIN state THEN "exists"
                            ELSE "create"
                  /\ wname' = IF n \in DOMAIN state THEN state[n] ELSE NoCert
    /\ UNCHANGED <<envVars, state, syncVars, supVars, histVars>>

\* Object present, entry present: does the certificate still exist?  The
\* provider fails, says yes (the status is refreshed) or says no (self-heal).
WorkerExists(ok) ==
    /\ wloop = "running" /\ wpc = "exists"
    /\ LET clientErr == IF ok THEN "nil" ELSE "other"
           exists == ok /\ wname \in provider
           r == Exists(wname, wkey, exists, clientErr)
       IN /\ mgr' = Call("Exists", wname, wkey, exists, clientErr,
                         r.events, r.exists, r.err)
          /\ wpc' = IF r.err # "nil" THEN "failed"
                    ELSE IF r.exists THEN "succeeded"
                    ELSE "create"
    /\ wname' = NoCert
    /\ UNCHANGED <<envVars, state, wq, wkey, syncVars, supVars, gcDeleted>>

\* Object present, no (usable) entry: a certificate is created at the
\* provider, or the provider refuses (quota exceeded, backend error).
WorkerCreate(clientErr) ==
    /\ wloop = "running" /\ wpc = "create"
    /\ clientErr = "nil" => nCreated < MaxCreates
    /\ LET r == Create(FreshName, wkey, clientErr)
       IN /\ mgr' = Call("Create", FreshName, wkey, NoCert, clientErr,
                         r.events, NoCert, r.err)
          /\ IF r.err = "nil"
             THEN /\ provider' = provider \cup {FreshName}
                  /\ certOwner' = [certOwner EXCEPT ![FreshName] = wkey]
                  /\ nCreated' = nCreated + 1
                  /\ wname' = FreshName
                  /\ wpc' = "put"
             ELSE /\ wpc' = "failed"
                  /\ wname' = NoCert
                  /\ UNCHANGED <<provider, certOwner, nCreated>>
    /\ UNCHANGED <<cluster, status, envOps, state, wq, wkey, syncVars, supVars,
                   gcDeleted>>

\* After a successful Create: the entry is stored, the status updated.
WorkerPut ==
    /\ wloop = "running" /\ wpc = "put"
    /\ state' = StatePut(state, ObjectMetaName(wkey), wname)
    /\ status' = IF wkey \in cluster THEN [status EXCEPT ![wkey] = wname] ELSE status
    /\ wpc' = "succeeded"
    /\ wname' = NoCert
    /\ UNCHANGED <<cluster, provider, certOwner, envOps, nCreated, wq, wkey, syncVars,
                   supVars, histVars>>

\* Object deleted, entry present: the certificate is deleted at the provider
\* (not found counts as deleted) and then the entry; or the provider fails.
WorkerDelete(ok) ==
    /\ wloop = "running" /\ wpc = "delete"
    /\ LET clientErr == IF ~ok THEN "other"
                        ELSE IF wname \in provider THEN "nil" ELSE "notFound"
           \* the object is gone: there is none to attach an event to
           r == Delete(wname, NoMcert, clientErr)
       IN /\ mgr' = Call("Delete", wname, NoMcert, NoCert, clientErr,
                         r.events, NoCert, r.err)
          /\ IF r.err = "nil"
             THEN /\ provider' = provider \ {wname}
                  /\ certOwner' = IF wname = NoCert THEN certOwner
                                  ELSE [certOwner EXCEPT ![wname] = <<>>]
                  /\ state' = StateDelete(state, ObjectMetaName(wkey))
             ELSE UNCHANGED <<provider, certOwner, state>>
          /\ wpc' = IF r.err = "nil" THEN "succeeded" ELSE "failed"
    /\ wname' = NoCert
    /\ UNCHANGED <<cluster, status, envOps, nCreated, wq, wkey, syncVars, supVars,
                   gcDeleted>>

\* The reconciliation of the key has returned: Forget and Done if it
\* succeeded, AddRateLimited and Done if it failed.
WorkerFinish ==
    /\ wloop = "running" /\ wpc \in {"succeeded", "failed"}
    /\ wq' = Finish(wq, wkey, wpc = "succeeded")
    /\ wpc' = "idle" /\ wkey' = <<>> /\ wname' = NoCert
    /\ mgr' = NoCall
    /\ UNCHANGED <<envVars, state, syncVars, supVars, gcDeleted>>

\* runWorker returns: the queue is shut down and drained.
WorkerReturn ==
    /\ wloop = "running" /\ wpc = "idle"
    /\ wq.queue = <<>> /\ wq.shuttingDown
    /\ wloop' = "sleep"
    /\ UNCHANGED <<envVars, state, wq, workerVars, syncVars, synced, stopClosed,
                   cpc, mpc, ipc, iwloop, sloop, runResult, histVars>>

\* wait.Until: the period elapses.
WorkerTimer ==
    /\ wloop = "sleep"
    /\ wloop' = "top"
    /\ UNCHANGED <<envVars, state, wq, workerVars, syncVars, synced, stopClosed,
                   cpc, mpc, ipc, iwloop, sloop, runResult, histVars>>

\* wait.Until: the stop channel has nothing to receive, f is called.
WorkerLoopEnter ==
    /\ wloop = "top"
    /\ cpc # "quit_mcert"
    /\ wloop' = "running"
    /\ UNCHANGED <<envVars, state, wq, workerVars, syncVars, synced, stopClosed,
                   cpc, mpc, ipc, iwloop, sloop, runResult, histVars>>

(***************************************************************************)
(* The SslCertificateManager called on its own, with any arguments          *)
(***************************************************************************)
\* Create(name, mcrt): the provider creates the certificate, refuses for
\* quota, or fails otherwise (a name already there included).
MgrCreate(name, mcrt, clientErr) ==
    /\ clientErr = "nil" => name \notin provider
    /\ LET r == Create(name, mcrt, clientErr)
       IN mgr' = Call("Create", name, mcrt, NoCert, clientErr, r.events, NoCert, r.err)
    /\ IF clientErr = "nil"
       THEN /\ provider' = provider \cup {name}
            /\ certOwner' = [certOwner EXCEPT ![name] = mcrt]
       ELSE UNCHANGED <<provider, certOwner>>
    /\ UNCHANGED <<cluster, status, envOps, nCreated, state, wq, workerVars, syncVars,
                   supVars, gcDeleted>>

\* Delete(name, mcrt): the provider deletes the certificate, reports it not
\* found, or fails.
MgrDelete(name, mcrt, ok) ==
    /\ LET clientErr == IF ~ok THEN "other"
                        ELSE IF name \in provider THEN "nil" ELSE "notFound"
           r == Delete(name, mcrt, clientErr)
       IN /\ mgr' = Call("Delete", name, mcrt, NoCert, clientErr, r.events, NoCert, r.err)
          /\ IF clientErr = "nil"
             THEN /\ provider' = provider \ {name}
                  /\ certOwner' = [certOwner EXCEPT ![name] = <<>>]
             ELSE UNCHANGED <<provider, certOwner>>
    /\ UNCHANGED <<cluster, status, envOps, nCreated, state, wq, workerVars, syncVars,
                   supVars, gcDeleted>>

\* Exists(name, mcrt): the provider answers or fails.
MgrExists(name, mcrt, ok) ==
    /\ LET clientErr == IF ok THEN "nil" ELSE "other"
           exists == ok /\ name \in provider
           r == Exists(name, mcrt, exists, clientErr)
       IN mgr' = Call("Exists", name, mcrt, exists, clientErr, r.events, r.exists, r.err)
    /\ UNCHANGED <<envVars, state, wq, workerVars, syncVars, supVars, gcDeleted>>

\* Get(name, mcrt): the provider returns the certificate, reports it not
\* found, or fails.
MgrGet(name, mcrt, ok) ==
    /\ LET clientErr == IF ~ok THEN "other"
                        ELSE IF name \in provider THEN "nil" ELSE "notFound"
           sslCert == IF clientErr = "nil" THEN name ELSE NoCert
           r == Get(name, mcrt, sslCert, clientErr)
       IN mgr' = Call("Get", name, mcrt, sslCert, clientErr, r.events, r.sslCert, r.err)
    /\ UNCHANGED <<envVars, state, wq, workerVars, syncVars, supVars, gcDeleted>>

(***************************************************************************)
(* The supervisor: Controller.Run, quit, McertController.Run and the       *)
(* ingress sub-controller's loops                                          *)
(***************************************************************************)
\* The process is told to stop: the stop channel given to Controller.Run
\* is closed.
StopSignal ==
    /\ ~stopClosed
    /\ stopClosed' = TRUE
    /\ UNCHANGED <<envVars, state, wq, workerVars, syncVars, synced, cpc, mpc,
                   ipc, iwloop, wloop, sloop, runResult, histVars>>

\* cache.WaitForCacheSync returns false: Run returns an error.
CtlSyncTimeout ==
    /\ cpc = "waitsync" /\ stopClosed
    /\ cpc' = "returned"
    /\ runResult' = "error"
    /\ UNCHANGED <<envVars, state, wq, workerVars, syncVars, synced, stopClosed,
                   mpc, ipc, iwloop, wloop, sloop, histVars>>

\* A Run that does not wait for the cache.
CacheSyncSkipped == TRUE

\* cache.WaitForCacheSync(stopChannel, c.Mcert.synced) returns true.
CacheSyncDone == synced

\* cache.WaitForCacheSync returns true: the channels are made and the
\* three goroutines started (Mcert.Run, Ingress.Run, the ingress worker).
CtlStart ==
    /\ cpc = "waitsync" /\ CacheSyncDone
    /\ cpc' = "select"
    /\ mpc' = "init"
    /\ ipc' = "waitstop"
    /\ iwloop' = "running"
    /\ UNCHANGED <<envVars, state, wq, workerVars, syncVars, synced, stopClosed,
                   wloop, sloop, runResult, histVars>>

\* McertController.Run: initializeState fails (Run goes on to send the
\* error), or it fills the state and the two loops are started.
McertInit(ok) ==
    /\ mpc = "init"
    /\ IF ok
       THEN /\ state' \in initializeState(cluster, status)
            /\ wloop' = "top"
            /\ sloop' = "top"
            /\ mpc' = "waitstop"
       ELSE /\ mpc' = "senderr"
            /\ UNCHANGED <<state, wloop, sloop>>
    /\ UNCHANGED <<envVars, wq, workerVars, syncVars, synced, stopClosed, cpc,
                   ipc, iwloop, runResult, histVars>>

\* select: the stop channel is closed.
CtlRecvStop ==
    /\ cpc = "select" /\ stopClosed
    /\ cpc' = "quit_mcert"
    /\ UNCHANGED <<envVars, state, wq, workerVars, syncVars, synced, stopClosed,
                   mpc, ipc, iwloop, wloop, sloop, runResult, histVars>>

\* select: McertController.Run's send on errors is received; that Run
\* returns and its deferred queue.ShutDown() runs.
CtlRecvError ==
    /\ cpc = "select" /\ mpc = "senderr"
    /\ cpc' = "quit_mcert"
    /\ mpc' = "done"
    /\ wq' = QueueShutDown(wq)
    /\ UNCHANGED <<envVars, state, workerVars, syncVars, synced, stopClosed,
                   ipc, iwloop, wloop, sloop, runResult, histVars>>

\* quit: the value sent on mcertStopChannel is received by
\* McertController.Run, which returns (deferred queue.ShutDown()).
QuitMcertToRun ==
    /\ cpc = "quit_mcert" /\ mpc = "waitstop"
    /\ cpc' = "quit_ingress"
    /\ mpc' = "done"
    /\ wq' = QueueShutDown(wq)
    /\ UNCHANGED <<envVars, state, workerVars, syncVars, synced, stopClosed,
                   ipc, iwloop, wloop, sloop, runResult, histVars>>

\* quit: the value is received by the worker's wait.Until instead.
QuitMcertToWorker ==
    /\ cpc = "quit_mcert" /\ wloop \in {"top", "sleep"}
    /\ cpc' = "quit_ingress"
    /\ wloop' = "stopped"
    /\ UNCHANGED <<envVars, state, wq, workerVars, syncVars, synced, stopClosed,
                   mpc, ipc, iwloop, sloop, runResult, histVars>>

\* quit: the value is received by the resync's wait.Until instead.
QuitMcertToSync ==
    /\ cpc = "quit_mcert" /\ sloop \in {"top", "sleep"}
    /\ cpc' = "quit_ingress"
    /\ sloop' = "stopped"
    /\ UNCHANGED <<envVars, state, wq, workerVars, syncVars, synced, stopClosed,
                   mpc, ipc, iwloop, wloop, runResult, histVars>>

\* quit: the value sent on ingressStopChannel is received by Ingress.Run;
\* quit returns and Controller.Run returns nil.
QuitIngress ==
    /\ cpc = "quit_ingress" /\ ipc = "waitstop"
    /\ cpc' = "returned"
    /\ ipc' = "done"
    /\ runResult' = "nil"
    /\ UNCHANGED <<envVars, state, wq, workerVars, syncVars, synced, stopClosed,
                   mpc, iwloop, wloop, sloop, histVars>>

\* The ingress worker's wait.Until sees the stop channel closed.
IngressWorkerStop ==
    /\ iwloop = "running" /\ stopClosed
    /\ iwloop' = "stopped"
    /\ UNCHANGED <<envVars, state, wq, workerVars, syncVars, synced, stopClosed,
                   cpc, mpc, ipc, wloop, sloop, runResult, histVars>>

(***************************************************************************)
(* Specifications                                                          *)
(***************************************************************************)
\* What users do to the objects of U.
Users(U) ==
    \/ \E r \in U, d \in BOOLEAN : UserCreate(r, d)
    \/ \E r \in U, d \in BOOLEAN : UserDelete(r, d)
    \/ \E r \in U : UserUpdate(r)

Provider == \E c \in CertNames : ProviderLoses(c)

QueueTimer == \E k \in Keys : DelayElapsed(k)

Resync ==
    \/ SyncLoopEnter
    \/ SyncList
    \/ SyncClean
    \/ SyncSnapshot
    \/ SyncListSsl
    \/ \E c \in CertNames, ok \in BOOLEAN : SyncDeleteOne(c, ok)
    \/ SyncEnqueue
    \/ SyncTimer

\* Reconciliation of keys whose object exists.
WorkerPresent ==
    \/ WorkerLoopEnter
    \/ WorkerGet
    \/ \E ok \in BOOLEAN : WorkerExists(ok)
    \/ \E clientErr \in {"nil", "quotaExceeded", "other"} : WorkerCreate(clientErr)
    \/ WorkerPut
    \/ WorkerFinish

Worker == WorkerPresent \/ \E ok \in BOOLEAN : WorkerDelete(ok)

Startup ==
    \/ CacheSynced
    \/ CtlStart
    \/ \E ok \in BOOLEAN : McertInit(ok)
    \/ CtlRecvError

Shutdown ==
    \/ StopSignal
    \/ CtlSyncTimeout
    \/ CtlRecvStop
    \/ QuitMcertToRun
    \/ QuitMcertToWorker
    \/ QuitMcertToSync
    \/ QuitIngress
    \/ IngressWorkerStop
    \/ WorkerReturn
    \/ WorkerTimer

\* One object; two objects of the same name in two namespaces.
OneObject == {<<"ns1", "a">>}
SameName == {<<"ns1", "a">>, <<"ns2", "a">>}

\* The SslCertificateManager called with any certificate name of an earlier
\* run, for any object or for none, against a provider that holds some of
\* those certificates.
Manager ==
    \/ \E name \in OrphanCerts, mcrt \in Resources,
          clientErr \in {"nil", "quotaExceeded", "other"} : MgrCreate(name, mcrt, clientErr)
    \/ \E name \in OrphanCerts, mcrt \in Resources \cup {NoMcert}, ok \in BOOLEAN :
          MgrDelete(name, mcrt, ok)
    \/ \E name \in OrphanCerts, mcrt \in Resources \cup {NoMcert}, ok \in BOOLEAN :
          MgrExists(name, mcrt, ok)
    \/ \E name \in OrphanCerts, mcrt \in Resources \cup {NoMcert}, ok \in BOOLEAN :
          MgrGet(name, mcrt, ok)

SpecManager == InitIn({}) /\ [][Manager]_vars

\* The whole controller as long as nobody stops it.
Next == Users(Resources) \/ Provider \/ QueueTimer \/ Resync \/ Worker \/ Startup

Spec == Init /\ [][Next]_vars

\* The controller with one object in play, as long as nobody stops it:
\* start-up, the worker and the resync loop side by side.
NextWorker == Users(OneObject) \/ Provider \/ QueueTimer \/ Resync \/ Worker \/ Startup

SpecWorker == InitIn(OneObject) /\ [][NextWorker]_vars

\* The controller with the two objects of one name in play, as long as
\* nobody stops it and before the first resync pass: start-up, the events
\* and the worker.
NextReconcile == Users(SameName) \/ Provider \/ QueueTimer \/ Worker \/ Startup

SpecReconcile == InitIn(SameName) /\ [][NextReconcile]_vars

\* The controller with all objects in play while the worker has nothing
\* scheduled: start-up and the resync loop.
NextResync == Users(Resources) \/ Provider \/ Resync \/ Startup

SpecResync == InitIn(Resources) /\ [][NextResync]_vars

\* The controller from start to stop with one object in play that nobody
\* touches (so that no key of a deleted object is ever reconciled).
NextSup == QueueTimer \/ Resync \/ WorkerPresent \/ Startup \/ Shutdown

SpecSup == InitIn(OneObject) /\ [][NextSup]_vars

\* Every goroutine that can take a step eventually takes one, every delay
\* elapses, the informer eventually syncs.
Fairness ==
    /\ WF_vars(Startup)
    /\ WF_vars(Resync)
    /\ WF_vars(WorkerPresent)
    /\ \A k \in Keys : WF_vars(DelayElapsed(k))

\* The running controller under fair scheduling, with two objects of the
\* same name that nobody touches.
NextFair == QueueTimer \/ Resync \/ WorkerPresent \/ Startup

\* Neither the lister nor the provider's List fails for ever.
ListsSucceed ==
    /\ SF_vars(SyncList /\ spc' = "clean")
    /\ SF_vars(SyncListSsl /\ spc' = "del")

\* Both objects exist from the start, one of them with its certificate, and
\* one orphan is left over.
InitFair ==
    InitIn(SameName) /\ cluster = SameName /\ provider = {PreCert(<<"ns2", "a">>), 4}

SpecFair == InitFair /\ [][NextFair]_vars /\ Fairness /\ ListsSucceed

\* The controller from start to stop under fair scheduling.
SpecSupFair == SpecSup /\ Fairness /\ WF_vars(Shutdown)

(***************************************************************************)
(* The resync pass                                                         *)
(***************************************************************************)
\* C1: in a resync pass whose provider List succeeded, the names Delete was
\* called with are exactly the listed names P that no entry of the state
\* holds (P \ R): while the loop runs no name of R and no unlisted name is
\* deleted, and when it ends every orphan has had its Delete attempted, also
\* after the Delete of another orphan failed.
C1_DeletesExactlyOrphans ==
    /\ spc \in {"del", "done"} =>
          /\ sIssued \subseteq sListed
          /\ sIssued \cap GetAllSslCertificates(state) = {}
    /\ (spc = "done" \/ (spc = "del" /\ sTodo = {})) =>
          sIssued = sListed \ GetAllSslCertificates(state)

\* A pass has ended in which a listed certificate of the state was kept and
\* two orphans had their Delete attempted, one failing and one succeeding.
C1_Witness ==
    /\ spc = "done"
    /\ sListed \cap GetAllSslCertificates(state) # {}
    /\ \E c1, c2 \in sIssued : c1 \in provider /\ c2 \notin provider

\* C3: step 2 of a pass (deleteObsoleteMcertsFromState) leaves no key in the
\* state but names of objects listed in the pass, and leaves every entry
\* under such a name as it was.
C3_CleanKeepsListed ==
    [][(spc = "clean" /\ spc' = "snap") =>
          /\ DOMAIN state' \subseteq MapKeys(sListing)
          /\ \A k \in DOMAIN state \cap MapKeys(sListing) :
                k \in DOMAIN state' /\ state'[k] = state[k]]_vars

\* Step 2 has run with one entry to drop and one to keep: the entry of an
\* object gone from the listing is out, another entry is still there.
C3_Witness ==
    /\ spc = "snap"
    /\ sGone # {}
    /\ \A p \in sGone : ObjectMetaName(p[1]) \notin DOMAIN state
    /\ DOMAIN state # {}

\* C4: an object that had an entry in the state and is gone from the
\* listing of a pass has, when that pass ends, no entry any more and has had
\* the Delete of its certificate issued (unless the provider no longer
\* listed it).  Passes that a failing List cut short are left aside.
C4_GoneObjectCleaned ==
    spc = "done" =>
        \A p \in sGone :
            /\ ObjectMetaName(p[1]) \notin DOMAIN state
            /\ (p[2] \in sIssued \/ p[2] \notin sListed)

\* C5: a pass that ran to its end has called enqueue exactly once for every
\* object of its listing.
C5_EnqueuesEachListedOnce ==
    spc = "done" =>
        \A r \in sListing : sEnqueued[MetaNamespaceKeyFunc(r)] = 1

(***************************************************************************)
(* The resync pass beside the worker                                       *)
(***************************************************************************)
\* C2: the orphan clean-up never deletes a certificate the reconciler
\* created in this run for an object that still exists.
C2_GcSparesLiveCertificates == ~gcDeleted

\* C6: under fair scheduling, an object that was in the listing of a pass
\* that ran to its end is handed to the worker afterwards.
C6_ListedIsReconciled ==
    \A r \in Resources : (spc = "done" /\ r \in sListing) ~> (wkey = r)

(***************************************************************************)
(* The supervisor                                                          *)
(***************************************************************************)
\* C7: once Controller.Run has received the stop signal or an error from a
\* sub-loop and entered quit, it returns.
C7_QuitReturns == (cpc \in {"quit_mcert", "quit_ingress"}) ~> (cpc = "returned")

NothingStarted ==
    /\ mpc = "notstarted" /\ ipc = "notstarted" /\ iwloop = "notstarted"
    /\ wloop = "notstarted" /\ sloop = "notstarted"

\* initializeState has failed.
InitFailed == mpc = "senderr" \/ (mpc = "done" /\ wloop = "notstarted")

\* C8: once Controller.Run has returned from a shutdown, McertController.Run
\* has returned and the queue is shut down, and neither the worker loop nor
\* the resync loop is still going.
C8_AllLoopsStopped ==
    runResult = "nil" =>
        /\ mpc = "done" /\ wq.shuttingDown
        /\ wloop \in {"notstarted", "stopped"}
        /\ sloop \in {"notstarted", "stopped"}

\* C9: after initializeState has failed no loop at all has been started
\* (worker, resync, ingress) and the state is empty.
C9_InitFailureStartsNothing ==
    InitFailed =>
        /\ wloop = "notstarted" /\ sloop = "notstarted"
        /\ ipc = "notstarted" /\ iwloop = "notstarted"
        /\ state = EmptyState

\* C10: before the informer reports its cache synced nothing is started,
\* initialized, reconciled or resynced; a Run that returned an error has
\* started nothing; and while the cache is not synced the only way
\* Controller.Run moves on is by returning that error.
C10_CacheSyncBarrier ==
    /\ [](~synced =>
            NothingStarted /\ state = EmptyState /\ wpc = "idle" /\ spc = "idle")
    /\ [](runResult = "error" => NothingStarted /\ state = EmptyState)
    /\ [][(~synced /\ cpc' # cpc) =>
            (cpc' = "returned" /\ runResult' = "error")]_vars

\* The stop signal came before the cache was synced, with an object in the
\* cluster to initialize the state from, and Run has returned its error.
C10_Witness ==
    /\ ~synced /\ stopClosed
    /\ cpc = "returned" /\ runResult = "error"
    /\ cluster # {}

\* C11: both fatal start-up conditions reach the caller of Controller.Run as
\* an error: a Run that returned without having started anything returned an
\* error, and once initializeState has failed Run returns an error.
C11_FatalStartupReported ==
    /\ [](cpc = "returned" /\ NothingStarted => runResult = "error")
    /\ (InitFailed ~> runResult = "error")

(***************************************************************************)
(* The SslCertificateManager                                               *)
(***************************************************************************)
\* C12: every call of Create emits exactly one event, for the object it was
\* given: TooManyCertificates when the provider's error is quota-exceeded,
\* BackendError for any other error, Create on success; and it returns the
\* provider's error as it is, nil on success.
C12_CreateEmitsOneEvent ==
    mgr.op = "Create" =>
        /\ mgr.events =
              <<Event(CASE mgr.clientErr = "quotaExceeded" -> "TooManyCertificates"
                        [] mgr.clientErr = "nil" -> "Create"
                        [] OTHER -> "BackendError",
                      mgr.mcrt)>>
        /\ mgr.err = mgr.clientErr

\* Create was called for an object and the provider refused it for quota.
C12_Witness ==
    /\ mgr.op = "Create"
    /\ mgr.clientErr = "quotaExceeded"
    /\ mgr.events = <<Event("TooManyCertificates", mgr.mcrt)>>
    /\ mgr.err = "quotaExceeded"

\* C13: Delete of a certificate the provider does not find returns nil and
\* emits nothing; a Delete event is emitted only when the provider deleted
\* the certificate, a BackendError event only when the provider failed
\* otherwise.
C13_DeleteNotFoundIsSilent ==
    mgr.op = "Delete" =>
        /\ mgr.clientErr = "notFound" => (mgr.err = "nil" /\ mgr.events = <<>>)
        /\ \A i \in 1..Len(mgr.events) :
              /\ mgr.events[i][1] = "Delete" => mgr.clientErr = "nil"
              /\ mgr.events[i][1] = "BackendError" =>
                    mgr.clientErr \notin {"nil", "notFound"}

\* C14: Exists and Get called for an object: a provider error emits exactly
\* one BackendError event for that object and is returned (with false, with
\* no certificate); a call that succeeded emits nothing and returns what the
\* provider answered, so Exists of an absent certificate returns false
\* with no error.
C14_ExistsGetReportErrors ==
    (mgr.op \in {"Exists", "Get"} /\ mgr.mcrt # NoMcert) =>
        IF mgr.clientErr # "nil"
        THEN /\ mgr.events = <<Event("BackendError", mgr.mcrt)>>
             /\ mgr.err = mgr.clientErr
             /\ mgr.op = "Exists" => mgr.val = FALSE
             /\ mgr.op = "Get" => mgr.val = NoCert
        ELSE /\ mgr.events = <<>>
             /\ mgr.err = "nil"
             /\ mgr.val = mgr.clientVal

\* Exists was called for an object and the provider failed.
C14_Witness ==
    /\ mgr.op = "Exists" /\ mgr.mcrt # NoMcert
    /\ mgr.clientErr = "other"
    /\ mgr.events # <<>>

\* What the call recorded in mgr returns when made for object mcrt instead.
ReturnedFor(mcrt) ==
    CASE mgr.op = "Delete" ->
            <<NoCert, Delete(mgr.name, mcrt, mgr.clientErr).err>>
      [] mgr.op = "Exists" ->
            LET r == Exists(mgr.name, mcrt, mgr.clientVal, mgr.clientErr)
            IN <<r.exists, r.err>>
      [] mgr.op = "Get" ->
            LET r == Get(mgr.name, mcrt, mgr.clientVal, mgr.clientErr)
            IN <<r.sslCert, r.err>>

\* C15: Delete, Exists and Get called with no object (mcrt nil) emit no
\* event whatever the provider answers, and return what they return when
\* called for an object.
C15_NoContextNoEvent ==
    (mgr.op \in {"Delete", "Exists", "Get"} /\ mgr.mcrt = NoMcert) =>
        /\ mgr.events = <<>>
        /\ \A mcrt \in Resources : ReturnedFor(mcrt) = <<mgr.val, mgr.err>>

\* Delete was called with no object and the provider failed.
C15_Witness ==
    /\ mgr.op = "Delete" /\ mgr.mcrt = NoMcert
    /\ mgr.clientErr = "other" /\ mgr.err = "other"

(***************************************************************************)
(* The queue and the worker                                                *)
(***************************************************************************)
\* C16: however often a key is enqueued before the worker takes it, the
\* queue holds it once; the worker has one key in hand at a time, and a key
\* in the worker's hand is not in the queue: enqueued again meanwhile, it is
\* only marked (dirty) and queued when the worker is done with it.
C16_QueueHoldsKeyOnce ==
    /\ \A i, j \in 1..Len(wq.queue) : wq.queue[i] = wq.queue[j] => i = j
    /\ \A i \in 1..Len(wq.queue) :
          wq.queue[i] \in wq.dirty /\ wq.queue[i] \notin wq.processing
    /\ wq.processing = (IF wkey = <<>> THEN {} ELSE {wkey})

\* The key in the worker's hand was enqueued again and its delay is over:
\* it is marked, and not in the queue.
C16_Witness ==
    /\ wkey # <<>>
    /\ wkey \in wq.processing
    /\ wkey \in wq.dirty

\* C17: when the provider refuses a Create for quota, the reconciliation
\* leaves the state as it was, a TooManyCertificates event is emitted for the
\* object, the provider is left as it was and holds neither the certificate
\* asked for nor any other certificate of that object, and the reconciliation
\* fails, so that the key is added again rate-limited: it waits, with its
\* failure counted.
C17_QuotaExceededLeavesNoTrace ==
    /\ [][(wpc = "create" /\ wpc' # "create" /\ mgr'.clientErr = "quotaExceeded") =>
            /\ state' = state
            /\ provider' = provider
            /\ mgr'.name \notin provider'
            /\ \A c \in provider' : certOwner'[c] # wkey
            /\ mgr'.events = <<Event("TooManyCertificates", wkey)>>
            /\ mgr'.err # "nil"
            /\ wpc' = "failed"]_vars
    /\ [][(wpc = "failed" /\ wpc' # "failed") =>
            /\ state' = state
            /\ wkey \in wq'.waiting
            /\ wq'.failures[wkey] > 0]_vars

\* C18: when an entry of the state names a certificate the provider no
\* longer lists, a resync pass keeps the entry and enqueues the key of the
\* object it belongs to; the reconciliation that finds the certificate
\* missing goes on to create one instead of failing, and a Create that
\* succeeded is followed by the Put of the new name and a successful end.
C18_LostCertificateIsHealed ==
    /\ [][(spc = "clean" /\ spc' = "snap") =>
            \A r \in sListing :
                ObjectMetaName(r) \in DOMAIN state =>
                    /\ ObjectMetaName(r) \in DOMAIN state'
                    /\ state'[ObjectMetaName(r)] = state[ObjectMetaName(r)]]_vars
    /\ [](spc = "done" =>
            \A r \in sListing :
                (/\ ObjectMetaName(r) \in DOMAIN state
                 /\ state[ObjectMetaName(r)] = status[r]
                 /\ status[r] # NoCert
                 /\ status[r] \notin sListed)
                => sEnqueued[MetaNamespaceKeyFunc(r)] > 0)
    /\ [][(wpc = "exists" /\ wpc' # "exists" /\ mgr'.err = "nil" /\ ~mgr'.val) =>
            wpc' = "create"]_vars
    /\ [][(wpc = "create" /\ wpc' = "put") => wname' \in provider']_vars
    /\ [][(wpc = "put" /\ wpc' # "put") =>
            /\ state'[ObjectMetaName(wkey)] = wname
            /\ wpc' = "succeeded"]_vars

(***************************************************************************)
(* The state                                                               *)
(***************************************************************************)
\* C19: every entry of the state holds the name of a certificate: the state
\* never has an entry with the empty name of an object that was never
\* provisioned, also right after initializeState.
C19_EntriesNameCertificates ==
    \A k \in DOMAIN state : state[k] \in CertNames

\* C20: every object has an entry of its own: initializeState leaves, for
\* every object listed, an entry holding that object's certificate name,
\* also when another namespace has an object of the same name; and the map
\* a resync pass builds holds every object of its listing.
C20_OneEntryPerObject ==
    /\ [][(mpc = "init" /\ mpc' = "waitstop") =>
            \A r \in cluster :
                /\ ObjectMetaName(r) \in DOMAIN state'
                /\ state'[ObjectMetaName(r)] = status[r]]_vars
    /\ [][(spc = "list" /\ spc' = "clean") => sAll' = sListing']_vars

(***************************************************************************)
(* The rate limiter's count and the passes cut short                       *)
(***************************************************************************)
\* C21: the rate limiter's failure count of a key grows only in the step
\* that ends a failed reconciliation of that key: no add, update or delete
\* event and no resync pass that enqueues the key increases it.
C21_BackoffGrowsOnlyOnFailure ==
    [][\A k \in Keys :
          wq'.failures[k] > wq.failures[k] =>
              (wpc = "failed" /\ wkey = k /\ wpc' = "idle")]_vars

\* C22: a pass whose listing of the declared resources fails leaves the
\* state, the provider and the queue as they were; a pass whose listing of
\* the provider's certificates fails leaves the provider and the queue as
\* they were, and a pass cut short has issued no Delete and enqueued no key.
C22_FailedListStopsPass ==
    /\ [][(spc = "list" /\ spc' = "failed") =>
             (state' = state /\ provider' = provider /\ wq' = wq)]_vars
    /\ [][(spc = "plist" /\ spc' = "failed") =>
             (provider' = provider /\ wq' = wq)]_vars
    /\ [](spc = "failed" =>
             (sIssued = {} /\ \A k \in Keys : sEnqueued[k] = 0))

\* The provider's List has failed in a pass that had listed objects to
\* enqueue, while the provider holds a certificate no entry of the state
\* names: the pass is over and that certificate is still there.
C22_Witness ==
    /\ spc = "failed"
    /\ sAll # {}
    /\ provider \ GetAllSslCertificates(state) # {}
    /\ wq.waiting = {}

====
